---- MODULE Spec2Model ----
(***************************************************************************)
(* pi-peer-healthcheck: the start-up loop that builds the PiPeer objects   *)
(* and the main healthcheck loop of main(), with the PiPeer methods        *)
(* resolve_ip, peer_ping and test_dns.  The resolver, the ping and         *)
(* nslookup commands and the SMTP relay are the environment: each call     *)
(* returns a nondeterministically chosen outcome.                          *)
(*                                                                         *)
(* A hostname is identified by its position in the --peers list.           *)
(***************************************************************************)
EXTENDS Integers, Sequences, FiniteSets, TLC

NumHosts == 2
NumAddrs == 2
MaxCycles == 2

Hosts == 1..NumHosts
Addrs == 1..NumAddrs
None == 0

Unbound == "unbound"
RESOLVE_REASON == "Hostname cannot be resolved"
PING_REASON == "Host cannot be pinged"
DNS_REASON == "Host not responding to DNS queries"

VARIABLES
  daemonize, dnscheck, email,   \* argDict entries (email: an address was given)
  pc,                           \* position of main()
  initIdx,                      \* position of the start-up loop in argDict["peerList"]
  peerList,                     \* the PiPeer objects, in creation order
  idx,                          \* position of the for loop over peerList
  status, ip_address,           \* PiPeer fields, per hostname
  resolved_ip, ping_success, dns_success, reason, body,   \* locals of main()
  cycle,                        \* number of passes of the while loop begun
  visited,                      \* peers whose evaluation was begun in this pass, in order
  notifies,                     \* send_email calls of the main loop in this pass, per hostname
  entryStatus,                  \* status of the current peer when its evaluation began
  initAlerts,                   \* send_email calls of the start-up loop, per hostname
  startupFailed,                \* hostnames whose PiPeer constructor raised
  pingTarget, dnsTarget,        \* address placed in the last ping / nslookup command
  committed,                    \* status at the end of the last completed check sequence
  sendFailed, initSendFailed    \* a send_email call raised in this pass / at start-up

vars == <<daemonize, dnscheck, email, pc, initIdx, peerList, idx, status,
          ip_address, resolved_ip, ping_success, dns_success, reason, body,
          cycle, visited, notifies, entryStatus, initAlerts, startupFailed,
          pingTarget, dnsTarget, committed, sendFailed, initSendFailed>>

config == <<daemonize, dnscheck, email>>

Range(s) == {s[i] : i \in 1..Len(s)}

PyBool(b) == IF b THEN "True" ELSE "False"

\* A value of the local `reason`; fresh: it was assigned during the
\* evaluation of the current peer in the current pass.
Assign(text) == [text |-> text, fresh |-> TRUE]
Stale(r) == [r EXCEPT !.fresh = FALSE]
NoReason == Stale(Assign(Unbound))
NoBody == [peer |-> 0, ip |-> None, reason |-> NoReason]

cur == peerList[idx]

----------------------------------------------------------------------------
(* PiPeer *)

\* resolve_ip returns the resolver's answer (None on any exception); the
\* assignment to status after the return statement is never executed.
resolve_ip(r, oldStatus) == [ip |-> r, status |-> oldStatus]

peer_ping_mut(ok) == [ret |-> ok, status |-> "unhealthy"]
peer_ping(ok) == [ret |-> ok, status |-> IF ok THEN "healthy" ELSE "unhealthy"]

test_dns_mut(ok) == [ret |-> ok, status |-> "unhealthy"]
test_dns(ok) == [ret |-> ok, status |-> IF ok THEN "healthy" ELSE "unhealthy"]

----------------------------------------------------------------------------
(* main: decisions *)

\* The start-up loop appends the peer only if the constructor did not raise.
AppendPeer_mut(pl, h, r) == Append(pl, h)
AppendPeer(pl, h, r) == IF r # None THEN Append(pl, h) ELSE pl

\* The main loop calls resolve_ip and keeps the result in a local only.
AddressAfterResolve_mut(old, r) == IF r # None THEN r ELSE old
AddressAfterResolve(old, r) == old

ReasonAfterResolve(old, r) ==
  IF r = None THEN Assign(RESOLVE_REASON) ELSE old

ReasonAfterPing_mut(old, ok) == old
ReasonAfterPing(old, ok) ==
  IF ~ok THEN Assign(PING_REASON) ELSE old

\* first-failure-wins instead of last-failure-wins
ReasonAfterDns_mut(old, ok) ==
  IF ~ok /\ ~old.fresh THEN Assign(DNS_REASON) ELSE old
ReasonAfterDns(old, ok) ==
  IF ~ok THEN Assign(DNS_REASON) ELSE old

ShouldAlert_mut(st, em) == st = "unhealthy"
ShouldAlert(st, em) == st = "unhealthy" /\ em

\* Both call sites of send_email catch every Exception and go on.
AfterInitSend(ok, next) == next
AfterSend_mut(ok, next) == IF ok THEN next ELSE "crashed"
AfterSend(ok, next) == next

AfterPass_mut(d) == "done"
AfterPass(d) == IF ~d THEN "done" ELSE "sleep"

----------------------------------------------------------------------------
Init ==
  /\ daemonize \in BOOLEAN
  /\ dnscheck \in BOOLEAN
  /\ email \in BOOLEAN
  /\ pc = "init"
  /\ initIdx = 1
  /\ peerList = <<>>
  /\ idx = 1
  /\ status = [h \in Hosts |-> "absent"]
  /\ ip_address = [h \in Hosts |-> None]
  /\ resolved_ip = None
  /\ ping_success = Unbound
  /\ dns_success = Unbound
  /\ reason = NoReason
  /\ body = NoBody
  /\ cycle = 0
  /\ visited = <<>>
  /\ notifies = [h \in Hosts |-> 0]
  /\ entryStatus = "absent"
  /\ initAlerts = [h \in Hosts |-> 0]
  /\ startupFailed = {}
  /\ pingTarget = None
  /\ dnsTarget = None
  /\ committed = [h \in Hosts |-> "absent"]
  /\ sendFailed = FALSE
  /\ initSendFailed = FALSE

\* One iteration of the start-up loop: construct the PiPeer, and on failure
\* send the initialization alert when an address is configured.
Startup ==
  /\ pc = "init"
  /\ initIdx <= NumHosts
  /\ \E r \in Addrs \cup {None}, ok \in BOOLEAN :
       LET h == initIdx
           res == resolve_ip(r, "unknown")
           next == IF initIdx = NumHosts THEN "loop" ELSE "init"
       IN  /\ peerList' = AppendPeer(peerList, h, res.ip)
           /\ IF res.ip # None
              THEN /\ status' = [status EXCEPT ![h] = res.status]
                   /\ ip_address' = [ip_address EXCEPT ![h] = res.ip]
                   /\ committed' = [committed EXCEPT ![h] = res.status]
                   /\ pc' = next
                   /\ UNCHANGED <<initAlerts, startupFailed, initSendFailed>>
              ELSE /\ startupFailed' = startupFailed \cup {h}
                   /\ IF email
                      THEN /\ initAlerts' = [initAlerts EXCEPT ![h] = @ + 1]
                           /\ initSendFailed' = (initSendFailed \/ ~ok)
                           /\ pc' = AfterInitSend(ok, next)
                      ELSE /\ pc' = next
                           /\ UNCHANGED <<initAlerts, initSendFailed>>
                   /\ UNCHANGED <<status, ip_address, committed>>
  /\ initIdx' = initIdx + 1
  /\ UNCHANGED <<config, idx, resolved_ip, ping_success, dns_success, reason,
                 body, cycle, visited, notifies, entryStatus, pingTarget,
                 dnsTarget, sendFailed>>

\* Head of the while loop and of the for loop over peerList.
BeginPass ==
  /\ pc = "loop"
  /\ cycle' = cycle + 1
  /\ idx' = 1
  /\ visited' = <<>>
  /\ notifies' = [h \in Hosts |-> 0]
  /\ sendFailed' = FALSE
  /\ pc' = IF Len(peerList) > 0 THEN "resolve" ELSE "cycle_end"
  /\ UNCHANGED <<config, initIdx, peerList, status, ip_address, resolved_ip,
                 ping_success, dns_success, reason, body, entryStatus,
                 initAlerts, startupFailed, pingTarget, dnsTarget, committed,
                 initSendFailed>>

\* "Ensure IP can be resolved"
Resolve ==
  /\ pc = "resolve"
  /\ \E r \in Addrs \cup {None} :
       LET res == resolve_ip(r, status[cur])
       IN  /\ resolved_ip' = res.ip
           /\ status' = [status EXCEPT ![cur] = res.status]
           /\ ip_address' = [ip_address EXCEPT
                               ![cur] = AddressAfterResolve(@, res.ip)]
           /\ reason' = ReasonAfterResolve(reason, res.ip)
  /\ visited' = Append(visited, cur)
  /\ entryStatus' = status[cur]
  /\ pc' = "ping"
  /\ UNCHANGED <<config, initIdx, peerList, idx, ping_success, dns_success,
                 body, cycle, notifies, initAlerts, startupFailed,
                 pingTarget, dnsTarget, committed, sendFailed, initSendFailed>>

\* "Ensure peer can be pinged"
Ping ==
  /\ pc = "ping"
  /\ \E ok \in BOOLEAN :
       LET res == peer_ping(ok)
       IN  /\ status' = [status EXCEPT ![cur] = res.status]
           /\ ping_success' = PyBool(res.ret)
           /\ reason' = ReasonAfterPing(reason, res.ret)
           /\ committed' = IF dnscheck THEN committed
                           ELSE [committed EXCEPT ![cur] = res.status]
  /\ pingTarget' = ip_address[cur]
  /\ pc' = "log"
  /\ UNCHANGED <<config, initIdx, peerList, idx, ip_address, resolved_ip,
                 dns_success, body, cycle, visited, notifies, entryStatus,
                 initAlerts, startupFailed, dnsTarget, sendFailed,
                 initSendFailed>>

\* logger.info("Peer ... is {peer.status}.") and the dnscheck test.
\* resolved_ip was last read by the log message of the resolve step and is
\* forgotten here.
LogStatus ==
  /\ pc = "log"
  /\ pc' = IF dnscheck THEN "dns" ELSE "alert"
  /\ resolved_ip' = None
  /\ UNCHANGED <<config, initIdx, peerList, idx, status, ip_address,
                 ping_success, dns_success, reason, body, cycle,
                 visited, notifies, entryStatus, initAlerts, startupFailed,
                 pingTarget, dnsTarget, committed, sendFailed, initSendFailed>>

\* "Ensure peer responds to DNS queries if enabled"
Dns ==
  /\ pc = "dns"
  /\ \E ok \in BOOLEAN :
       LET res == test_dns(ok)
       IN  /\ status' = [status EXCEPT ![cur] = res.status]
           /\ dns_success' = PyBool(res.ret)
           /\ reason' = ReasonAfterDns(reason, res.ret)
           /\ committed' = [committed EXCEPT ![cur] = res.status]
  /\ dnsTarget' = ip_address[cur]
  /\ pc' = "alert"
  /\ UNCHANGED <<config, initIdx, peerList, idx, ip_address, resolved_ip,
                 ping_success, body, cycle, visited, notifies, entryStatus,
                 initAlerts, startupFailed, pingTarget, sendFailed,
                 initSendFailed>>

\* "Send email if unhealthy".  Formatting the body reads `reason`; an
\* unbound local raises UnboundLocalError outside the try block.
Alert ==
  /\ pc = "alert"
  /\ IF ShouldAlert(status[cur], email)
     THEN IF reason.text = Unbound
          THEN /\ pc' = "crashed"
               /\ UNCHANGED <<body, notifies, sendFailed>>
          ELSE \E ok \in BOOLEAN :
                 /\ body' = [peer |-> cur, ip |-> ip_address[cur],
                             reason |-> reason]
                 /\ notifies' = [notifies EXCEPT ![cur] = @ + 1]
                 /\ sendFailed' = (sendFailed \/ ~ok)
                 /\ pc' = AfterSend(ok, "peer_done")
     ELSE /\ pc' = "peer_done"
          /\ UNCHANGED <<body, notifies, sendFailed>>
  /\ UNCHANGED <<config, initIdx, peerList, idx, status, ip_address,
                 resolved_ip, ping_success, dns_success, reason, cycle,
                 visited, entryStatus, initAlerts, startupFailed, pingTarget,
                 dnsTarget, committed, initSendFailed>>

\* "Healthcheck completed for peer" and the next iteration of the for loop.
\* The locals that every iteration assigns before it reads them
\* (ping_success, dns_success, body) are dead here and are
\* forgotten, as are the recorded probe targets and the status the peer had
\* on entry; `reason` is kept, since no iteration is bound to assign it, and
\* is from now on a leftover of an earlier evaluation.
NextPeer ==
  /\ pc = "peer_done"
  /\ idx' = idx + 1
  /\ pc' = IF idx < Len(peerList) THEN "resolve" ELSE "cycle_end"
  /\ ping_success' = Unbound
  /\ dns_success' = Unbound
  /\ body' = NoBody
  /\ pingTarget' = None
  /\ dnsTarget' = None
  /\ entryStatus' = "absent"
  /\ reason' = Stale(reason)
  /\ UNCHANGED <<config, initIdx, peerList, status, ip_address, resolved_ip,
                 cycle, visited, notifies, initAlerts, startupFailed,
                 committed, sendFailed, initSendFailed>>

\* "Healthchecks completed for all peers", the status report, and the
\* daemonize test
EndPass ==
  /\ pc = "cycle_end"
  /\ pc' = AfterPass(daemonize)
  /\ UNCHANGED <<config, initIdx, peerList, idx, status, ip_address,
                 resolved_ip, ping_success, dns_success, reason, body, cycle,
                 visited, notifies, entryStatus, initAlerts, startupFailed,
                 pingTarget, dnsTarget, committed, sendFailed, initSendFailed>>

\* time.sleep(interval); the number of passes explored is capped.
Sleep ==
  /\ pc = "sleep"
  /\ cycle < MaxCycles
  /\ pc' = "loop"
  /\ UNCHANGED <<config, initIdx, peerList, idx, status, ip_address,
                 resolved_ip, ping_success, dns_success, reason, body, cycle,
                 visited, notifies, entryStatus, initAlerts, startupFailed,
                 pingTarget, dnsTarget, committed, sendFailed, initSendFailed>>

Next ==
  \/ Startup
  \/ BeginPass
  \/ Resolve
  \/ Ping
  \/ LogStatus
  \/ Dns
  \/ Alert
  \/ NextPeer
  \/ EndPass
  \/ Sleep

Spec == Init /\ [][Next]_vars

\* Every call into the environment returns (the probes are bounded by the
\* timeout) and the single thread of main() then takes its next step.
LiveSpec == Spec /\ WF_vars(Next)

TypeOK ==
  /\ pc \in {"init", "loop", "resolve", "ping", "log", "dns", "alert",
             "peer_done", "cycle_end", "sleep", "done", "crashed"}
  /\ status \in [Hosts -> {"absent", "unknown", "healthy", "unhealthy"}]
  /\ ip_address \in [Hosts -> Addrs \cup {None}]
  /\ cycle \in 0..MaxCycles

----------------------------------------------------------------------------
(* Properties *)

\* The evaluation of the current peer has run all its enabled probes.
Finished == pc \in {"alert", "peer_done"}

AllEnabledOK ==
  /\ ping_success = "True"
  /\ dnscheck => dns_success = "True"

\* h was evaluated to the end in the current pass.
Evaluated(h) ==
  \E i \in 1..Len(visited) : visited[i] = h /\ (i < idx \/ pc = "peer_done")

\* C1: if the ping probe of a cycle fails, the peer's status at the end of
\* its evaluation is Unhealthy, whatever the DNS setting and DNS result.
C1_PingFailureEndsUnhealthy ==
  (Finished /\ ping_success = "False") => status[cur] = "unhealthy"

\* C2: in each pass send_email is called exactly once for every evaluated
\* peer whose final status is unhealthy when a recipient is configured, and
\* never otherwise; the count starts afresh in every pass, whatever the
\* peer's status (and so its alert) in the pass before.
C2_OneAlertPerUnhealthyPeer ==
  \A h \in Hosts :
    notifies[h] =
      IF Evaluated(h) /\ status[h] = "unhealthy" /\ email THEN 1 ELSE 0

C2_Witness ==
  /\ cycle = 2
  /\ pc = "peer_done"
  /\ notifies[cur] = 1
  /\ entryStatus = "unhealthy"
  /\ email

\* C3: a hostname whose start-up resolution fails is never in peerList, is
\* never evaluated or alerted on by the main loop, gets exactly one
\* initialization alert if a recipient is configured and none otherwise;
\* peerList does not change once the start-up loop is over.
C3_FailedHostExcluded ==
  /\ [](\A h \in Hosts :
          IF h \in startupFailed
          THEN /\ h \notin Range(peerList)
               /\ h \notin Range(visited)
               /\ status[h] = "absent"
               /\ notifies[h] = 0
               /\ body.peer # h
               /\ initAlerts[h] = IF email THEN 1 ELSE 0
          ELSE initAlerts[h] = 0)
  /\ [][pc # "init" => peerList' = peerList]_vars

C3_Witness ==
  /\ pc = "cycle_end"
  /\ cycle = 2
  /\ email
  /\ startupFailed # {}
  /\ peerList # <<>>
  /\ \E h \in Range(peerList) : notifies[h] = 1

C5_ProbeTargetsResolved ==
  pc = "log" =>
    pingTarget = IF resolved_ip # None THEN resolved_ip ELSE ip_address[cur]

\* C5 as amended: the address of a peer is never changed after its
\* construction, and the ping and DNS probes of every cycle target that
\* address, whatever the resolve step of the cycle returned.
C5_ProbeTargetsStartupAddress ==
  /\ [][\A h \in Hosts :
          status[h] # "absent" => ip_address'[h] = ip_address[h]]_vars
  /\ [](pc \in {"log", "dns", "alert", "peer_done"} =>
          pingTarget = ip_address[cur])
  /\ []((Finished /\ dnscheck) => dnsTarget = ip_address[cur])

C5_Witness ==
  /\ pc = "log"
  /\ cycle = 2
  /\ resolved_ip # None
  /\ resolved_ip # ip_address[cur]
  /\ pingTarget = ip_address[cur]

\* C6: with the DNS check enabled, a failed DNS probe leaves the peer
\* unhealthy with the DNS reason, assigned in this evaluation, whether the
\* ping or the resolution of the same evaluation failed or not.
C6_DnsFailureWins ==
  (Finished /\ dnscheck /\ dns_success = "False") =>
    /\ status[cur] = "unhealthy"
    /\ reason = Assign(DNS_REASON)

C6_Witness ==
  /\ pc = "alert"
  /\ dnscheck
  /\ dns_success = "False"
  /\ ping_success = "False"
  /\ status[cur] = "unhealthy"
  /\ reason.text = DNS_REASON

\* C7 as stated: if every enabled probe succeeds, the status is healthy and
\* the reason is cleared.
C7_HealthyClearsReason ==
  (Finished /\ AllEnabledOK) =>
    /\ status[cur] = "healthy"
    /\ reason = NoReason

\* C7 as amended: if every enabled probe succeeds, the status is healthy,
\* whatever it was in the pass before, and no alert is sent for the peer;
\* the reason is left as it was.
C7_HealthyWhenAllSucceed ==
  (Finished /\ AllEnabledOK) =>
    /\ status[cur] = "healthy"
    /\ notifies[cur] = 0
    /\ body = NoBody

C7_Witness ==
  /\ pc = "peer_done"
  /\ AllEnabledOK
  /\ cycle = 2
  /\ entryStatus = "unhealthy"
  /\ reason.text # Unbound
  /\ status[cur] = "healthy"

\* C8: a send_email call that raises does not stop main(): the step leaves
\* every status alone and goes on to the next statement, the pass evaluates
\* every peer, and when daemonized the next pass begins; likewise for the
\* initialization alert.
C8_SendFailureContained ==
  /\ [](pc # "crashed")
  /\ [][(sendFailed' /\ ~sendFailed /\ pc = "alert") =>
          (status' = status /\ pc' = "peer_done")]_vars
  /\ [][(initSendFailed' /\ ~initSendFailed) =>
          (status' = status /\ pc' \in {"init", "loop"})]_vars
  /\ []((pc = "cycle_end" /\ sendFailed) => visited = peerList)
  /\ (pc = "peer_done" /\ sendFailed) ~> (pc = "cycle_end" /\ visited = peerList)
  /\ (initSendFailed /\ cycle = 0)
       ~> (pc = "cycle_end" /\ cycle = 1 /\ visited = peerList)
  /\ \A c \in 1..(MaxCycles - 1) :
       (daemonize /\ sendFailed /\ cycle = c) ~> (cycle = c + 1)

C8_Witness ==
  /\ pc = "cycle_end"
  /\ cycle = 2
  /\ daemonize
  /\ sendFailed
  /\ Len(peerList) = 2
  /\ visited = peerList
  /\ notifies[peerList[1]] = 1
  /\ notifies[peerList[2]] = 0
  /\ status[peerList[2]] = "healthy"

\* C9: the peers are evaluated one at a time in list order; without
\* --daemonize main() makes exactly one pass and ends, whatever the probes,
\* the resolver and the mail relay answer; with --daemonize it never ends
\* and every completed pass is followed by another complete pass.
C9_PassesAndTermination ==
  /\ [](/\ Len(visited) <= Len(peerList)
        /\ visited = SubSeq(peerList, 1, Len(visited)))
  /\ [](pc \in {"ping", "log", "dns", "alert", "peer_done"} =>
          Len(visited) = idx)
  /\ [](pc = "done" => (~daemonize /\ cycle = 1 /\ visited = peerList))
  /\ (~daemonize) ~> (pc = "done")
  /\ [](daemonize => pc # "done")
  /\ \A c \in 1..(MaxCycles - 1) :
       (daemonize /\ pc = "cycle_end" /\ cycle = c)
         ~> (pc = "cycle_end" /\ cycle = c + 1 /\ visited = peerList)

C9_Witness ==
  /\ pc = "cycle_end"
  /\ daemonize
  /\ cycle = 2
  /\ Len(visited) = NumHosts

\* C10: the reason in the body of an alert of the main loop was assigned by
\* a failing probe of the same peer in the same pass: the DNS reason when
\* the DNS check is enabled, the ping reason when it is not; formatting the
\* body never finds the local unbound.
C10_AlertReasonIsFresh ==
  /\ pc # "crashed"
  /\ (pc = "alert" /\ status[cur] = "unhealthy" /\ email) =>
       reason = Assign(IF dnscheck THEN DNS_REASON ELSE PING_REASON)
  /\ (pc = "peer_done" /\ notifies[cur] = 1) =>
       /\ body.peer = cur
       /\ body.reason = Assign(IF dnscheck THEN DNS_REASON ELSE PING_REASON)

C10_Witness ==
  /\ pc = "peer_done"
  /\ cycle = 1
  /\ idx = 1
  /\ notifies[cur] = 1
  /\ body.reason.text = PING_REASON

====
